---- MODULE Spec2Model ----
(***************************************************************************)
(* MedPrompt triage service: the rule-based triage core of                 *)
(* src/triage_agent.py (TriageAgent) and the request handler of            *)
(* src/app.py (analyze_symptoms).                                          *)
(*                                                                         *)
(* Texts are TLA+ strings; Len, \o and SubSeq act on them as Python's      *)
(* len, + and slicing do.  The bullet marker U+2022 of the source is       *)
(* written "*" here, a character that occurs nowhere else in the model.    *)
(***************************************************************************)
EXTENDS Integers, Sequences, FiniteSets, TLC

\* ------------------------------------------------------------------------
\* Bounds of the input domain
\* ------------------------------------------------------------------------
MaxFragments == 3

MaxLen == 14

MaxRequestFragments == 2

MaxUnits == 3

MaxInvocations == 2

\* ------------------------------------------------------------------------
\* Python str operations used by the source
\* ------------------------------------------------------------------------

\* s[i-1] of Python, as a one-character string
CharAt(s, i) == SubSeq(s, i, i)

\* s[i-1:] of Python
Tail_(s, i) == SubSeq(s, i, Len(s))

\* `t in s` (substring containment)
Contains(s, t) ==
    \E i \in 1..(Len(s) - Len(t) + 1) : SubSeq(s, i, i + Len(t) - 1) = t

\* s.find(t) + 1, with 0 for "not found"
RECURSIVE FindFrom(_, _, _)
FindFrom(s, t, i) ==
    IF i + Len(t) - 1 > Len(s) THEN 0
    ELSE IF SubSeq(s, i, i + Len(t) - 1) = t THEN i
    ELSE FindFrom(s, t, i + 1)

\* the characters str.strip() removes
Whitespace == {" ", "\n", "\t", "\r", "\f"}

RECURSIVE lstrip(_)
lstrip(s) ==
    IF s = "" THEN ""
    ELSE IF CharAt(s, 1) \in Whitespace THEN lstrip(Tail_(s, 2))
    ELSE s

RECURSIVE rstrip(_)
rstrip(s) ==
    IF s = "" THEN ""
    ELSE IF CharAt(s, Len(s)) \in Whitespace THEN rstrip(SubSeq(s, 1, Len(s) - 1))
    ELSE s

\* s.strip()
strip(s) == rstrip(lstrip(s))

\* s.split(sep): leftmost non-overlapping occurrences, empty pieces kept
RECURSIVE split(_, _)
split(s, sep) ==
    LET i == FindFrom(s, sep, 1)
    IN  IF i = 0 THEN <<s>>
        ELSE <<SubSeq(s, 1, i - 1)>> \o split(Tail_(s, i + Len(sep)), sep)

UpperToLower ==
    "A" :> "a" @@ "B" :> "b" @@ "C" :> "c" @@ "D" :> "d" @@ "E" :> "e" @@
    "F" :> "f" @@ "G" :> "g" @@ "H" :> "h" @@ "I" :> "i" @@ "J" :> "j" @@
    "K" :> "k" @@ "L" :> "l" @@ "M" :> "m" @@ "N" :> "n" @@ "O" :> "o" @@
    "P" :> "p" @@ "Q" :> "q" @@ "R" :> "r" @@ "S" :> "s" @@ "T" :> "t" @@
    "U" :> "u" @@ "V" :> "v" @@ "W" :> "w" @@ "X" :> "x" @@ "Y" :> "y" @@
    "Z" :> "z"

\* s.lower(): every upper-case letter replaced, s itself if it has none
RECURSIVE lower(_)
lower(s) ==
    IF \A i \in 1..Len(s) : CharAt(s, i) \notin DOMAIN UpperToLower THEN s
    ELSE LET c == CharAt(s, 1)
         IN  (IF c \in DOMAIN UpperToLower THEN UpperToLower[c] ELSE c)
                 \o lower(Tail_(s, 2))

\* any(term in s for term in terms)
any_in(s, terms) == \E t \in terms : Contains(s, t)

\* ------------------------------------------------------------------------
\* Enumerations
\* ------------------------------------------------------------------------
EMERGENCY == "emergency"
URGENT == "urgent"
SEMI_URGENT == "semi-urgent"
ROUTINE == "routine"
SELF_CARE == "self-care"

TriageSeverity == {EMERGENCY, URGENT, SEMI_URGENT, ROUTINE, SELF_CARE}

EMERGENCY_ROOM == "emergency_room"
URGENT_CARE == "urgent_care"
PRIMARY_CARE == "primary_care"
TELEHEALTH == "telehealth"
SELF_MANAGEMENT == "self_management"

CarePathway ==
    {EMERGENCY_ROOM, URGENT_CARE, PRIMARY_CARE, TELEHEALTH, SELF_MANAGEMENT}

\* ------------------------------------------------------------------------
\* Segmenter (classify_severity, first part)
\* ------------------------------------------------------------------------
Bullet == "* "

\* raw_symptom_list with the comma tried before the dash and the bullet
raw_symptom_list_comma_first(symptoms) ==
    LET by_newline == split(symptoms, "\n")
    IN  IF Len(by_newline) = 1
        THEN IF Contains(symptoms, ", ") THEN split(symptoms, ", ")
             ELSE IF Contains(symptoms, " - ") THEN split(symptoms, " - ")
             ELSE IF Contains(symptoms, Bullet) THEN split(symptoms, Bullet)
             ELSE by_newline
        ELSE by_newline

\* the split of lines 151-159, before empty pieces are dropped
raw_symptom_list(symptoms) ==
    LET by_newline == split(symptoms, "\n")
    IN  IF Len(by_newline) = 1
        THEN IF Contains(symptoms, " - ") THEN split(symptoms, " - ")
             ELSE IF Contains(symptoms, Bullet) THEN split(symptoms, Bullet)
             ELSE IF Contains(symptoms, ", ") THEN split(symptoms, ", ")
             ELSE by_newline
        ELSE by_newline

\* strip_nonempty without its filter: [s.strip() for s in symptom_list]
RECURSIVE strip_keep_empty(_)
strip_keep_empty(pieces) ==
    IF pieces = <<>> THEN <<>>
    ELSE <<strip(Head(pieces))>> \o strip_keep_empty(Tail(pieces))

\* [s.strip() for s in symptom_list if s.strip()]
RECURSIVE strip_nonempty(_)
strip_nonempty(pieces) ==
    IF pieces = <<>> THEN <<>>
    ELSE LET u == strip(Head(pieces))
         IN  (IF u # "" THEN <<u>> ELSE <<>>) \o strip_nonempty(Tail(pieces))

segment(symptoms) == strip_nonempty(raw_symptom_list(symptoms))

\* ------------------------------------------------------------------------
\* Regular expressions of the rule registry
\*
\* Every pattern of the source is a chain  P1.*P2.*...Pn  whose parts Pi are
\* alternations of literals (an optional group being two alternatives).  A
\* pattern is the sequence of its parts, a part the set of its literals.
\* ------------------------------------------------------------------------

\* re.search(pattern, text): the parts occur in order, without overlap, and
\* no "\n" lies in a gap, since "." does not match a newline
RECURSIVE match_from(_, _, _, _)
match_from(text, parts, k, from) ==
    IF k > Len(parts) THEN TRUE
    ELSE \E alt \in parts[k] :
            \E i \in from..(Len(text) - Len(alt) + 1) :
                /\ SubSeq(text, i, i + Len(alt) - 1) = alt
                /\ (k > 1 => \A j \in from..(i - 1) : CharAt(text, j) # "\n")
                /\ match_from(text, parts, k + 1, i + Len(alt))

re_search(pattern, text) == match_from(text, pattern, 1, 1)

\* the group (baby|infant|child)
Child == {"baby", "infant", "child"}

emergency_indicators == <<
    <<{"difficulty breathing"}>>, <<{"shortness of breath"}>>, <<{"chest pain"}>>,
    <<{"severe pain", "severe bleeding"}>>, <<{"unconscious"}>>, <<{"unresponsive"}>>,
    <<{"stroke"}>>, <<{"heart attack"}>>, <<{"seizure"}>>,
    <<{"unable to speak", "unable to move"}>>,
    <<{"sudden numbness", "sudden weakness"}>>,
    <<{"severe head with fever", "severe head with stiff neck",
       "severe headache with fever", "severe headache with stiff neck"}>>,
    <<{"suicidal"}>>, <<{"overdose"}>>, <<{"poisoning"}>>,
    <<Child, {"not breathing", "turning blue", "choking"}>>,
    <<Child, {"unresponsive", "unconscious", "won't wake up"}>>,
    <<Child, {"seizure", "convulsion"}>>,
    <<Child, {"severe dehydration", "not urinating"}>>,
    <<Child, {"rash"}, {"doesn't blanch", "doesn't fade"}>>,
    <<Child, {"lethargic", "extremely weak"}>>,
    <<Child, {"high fever"},
      {"under 3 months", "under three months",
       "less than 3 months", "less than three months"}>> >>

urgent_indicators == <<
    <<{"high fever"}>>, <<{"persistent vomiting"}>>, <<{"dehydration"}>>,
    <<{"infection"}>>, <<{"moderate pain", "moderate bleeding"}>>,
    <<{"broken bone"}>>, <<{"deep cut"}>>, <<{"burn"}>>,
    <<{"allergic reaction"}>>, <<{"pregnancy complication"}>>,
    <<{"severe rash", "severe swelling"}>>, <<{"eye injury"}>>,
    <<{"mental health crisis"}>>,
    <<Child, {"fever"}, {"102", "103", "104", "105"}>>,
    <<Child, {"not feeding", "refusing to eat", "drink"}>>,
    <<Child, {"unusual crying", "unusual screaming"}>>,
    <<Child, {"bulging fontanelle"}>>,
    <<Child, {"persistent vomiting", "diarrhea"}>> >>

semi_urgent_indicators == <<
    <<{"earache", "earinfection"}>>, <<{"sinus pain", "sinus infection"}>>,
    <<{"minor infection"}>>, <<{"mild to moderate pain"}>>,
    <<{"sprain", "strain"}>>, <<{"minor injury"}>>,
    <<{"persistent symptoms"}>>, <<{"worsening chronic condition"}>>,
    <<{"fever"}, {"101", "102"}>>,
    <<{"swollen"}, {"ankle", "joint", "knee", "wrist"}>>,
    <<{"diarrhea"}, {"3 days", "three days", "several days"}>>,
    <<{"persistent diarrhea"}>>,
    <<{"fall"}>>, <<{"fell"}>>, <<{"falling"}>>, <<{"twisted"}>>, <<{"twist"}>>,
    <<{"asthma"}, {"significantly worse", "severe", "attack"}>>,
    <<{"blood sugar"}, {"very high", "dangerously high", "extremely elevated"}>>,
    <<{"diabetes", "diabetic"}, {"uncontrolled", "out of control"}>>,
    <<{"back pain"}, {"severe", "debilitating", "can't move"}>>,
    <<Child, {"ear infection", "ear pain"}>>,
    <<Child, {"fever"}, {"100", "101"}>>,
    <<Child, {"mild rash"}>>,
    <<Child, {"cough", "cold"}, {"several days"}>> >>

\* routine_indicators without the pattern mild (rash|pain)
routine_indicators_without_mild == <<
    <<{"chronic condition"}>>, <<{"follow-up"}>>, <<{"medication refill"}>>,
    <<{"mild symptoms"}>>, <<{"general check-up"}>>, <<{"non-urgent concern"}>>,
    <<{"routine screening"}>>,
    <<{"asthma"}, {"worse", "worsening"}>>,
    <<{"persistent"}, {"pain", "ache"}>>,
    <<{"blood sugar"}, {"higher", "elevated", "abnormal"}>>,
    <<{"diabetes", "diabetic"}, {"control", "management"}>>,
    <<{"back pain"}, {"chronic", "persistent", "ongoing"}>>,
    <<{"month", "months", "week", "weeks", "day", "days"}>>,
    <<Child, {"mild fever"}>>,
    <<Child, {"minor cough", "runny nose"}>>,
    <<Child, {"diaper rash"}>>,
    <<Child, {"feeding question", "growth concern"}>> >>

routine_indicators == <<
    <<{"chronic condition"}>>, <<{"follow-up"}>>, <<{"medication refill"}>>,
    <<{"mild symptoms"}>>, <<{"general check-up"}>>, <<{"non-urgent concern"}>>,
    <<{"mild rash", "mild pain"}>>, <<{"routine screening"}>>,
    <<{"asthma"}, {"worse", "worsening"}>>,
    <<{"persistent"}, {"pain", "ache"}>>,
    <<{"blood sugar"}, {"higher", "elevated", "abnormal"}>>,
    <<{"diabetes", "diabetic"}, {"control", "management"}>>,
    <<{"back pain"}, {"chronic", "persistent", "ongoing"}>>,
    <<{"month", "months", "week", "weeks", "day", "days"}>>,
    <<Child, {"mild fever"}>>,
    <<Child, {"minor cough", "runny nose"}>>,
    <<Child, {"diaper rash"}>>,
    <<Child, {"feeding question", "growth concern"}>> >>

\* the list __init__ builds last; no method of the agent reads it
self_care_indicators == <<
    <<{"common cold"}>>, <<{"minor headache"}>>, <<{"mild fever"}>>,
    <<{"sore throat"}>>, <<{"minor cut"}>>, <<{"scrape"}>>, <<{"bruise"}>>,
    <<{"mild allergies"}>>, <<{"mild digestive issues"}>>,
    <<{"general fatigue"}>>, <<{"tired"}>>, <<{"fatigue"}>>,
    <<{"runny nose"}>>, <<{"sneezing"}>>, <<{"cough"}>>, <<{"mild cough"}>>,
    <<{"occasional cough"}>>, <<{"slight headache"}>>, <<{"mild pain"}>>,
    <<{"minor pain"}>>, <<{"slight pain"}>>, <<{"itchy"}>>, <<{"itching"}>>,
    <<{"dry skin"}>>, <<{"rash"}>>, <<{"minor rash"}>>, <<{"upset stomach"}>>,
    <<{"indigestion"}>>, <<{"gas"}>>, <<{"bloating"}>>,
    <<Child, {"slight fever", "low-grade fever"}>>,
    <<Child, {"minor cough", "sniffle"}>>,
    <<Child, {"small scrape", "minor bruise"}>>,
    <<Child, {"teething"}>>,
    <<Child, {"mild diaper rash"}>>,
    <<Child, {"occasional fussiness"}>> >>

\* the object TriageAgent() constructs: its attributes
TriageAgent ==
    [emergency_indicators |-> emergency_indicators,
     urgent_indicators |-> urgent_indicators,
     semi_urgent_indicators |-> semi_urgent_indicators,
     routine_indicators |-> routine_indicators,
     self_care_indicators |-> self_care_indicators]

\* Python's None
None == [none |-> TRUE]

\* the object PubMedRAG() constructs: the attribute requests assign to
PubMedRAG == [vector_store |-> None]

\* the module-level objects of the service, shared by all requests
VARIABLES
    triage_agent,     \* app.py: triage_agent = TriageAgent()
    pubmed_rag        \* app.py: pubmed_rag = PubMedRAG()

\* _check_pattern_match: the text is lower-cased and searched for each
\* pattern; re.IGNORECASE adds nothing, the patterns being lower-case
_check_pattern_match(text, patterns) ==
    LET t == lower(text)
    IN  \E n \in 1..Len(patterns) : re_search(patterns[n], t)

\* ------------------------------------------------------------------------
\* Unit classifier (body of the for-loop of classify_severity)
\* ------------------------------------------------------------------------
chronic_terms == {"chronic", "persistent", "ongoing", "months", "weeks"}

worsening_terms == {"worse", "worsening", "increased", "higher", "elevated"}

intensifier_terms == {"severe", "extreme", "intense", "unbearable", "worst"}

context_terms == {"pain", "headache", "chest", "breathing"}

is_chronic(symptom) == any_in(lower(symptom), chronic_terms)

is_worsening(symptom) == any_in(lower(symptom), worsening_terms)

\* lines 176-181: the override that ends the iteration with EMERGENCY
intensifier_override(symptom) ==
    /\ any_in(lower(symptom), intensifier_terms)
    /\ any_in(lower(symptom), context_terms)

\* lines 184-194
asthma_rule(symptom) ==
    IF any_in(lower(symptom), {"attack", "can't breathe", "severe", "emergency"})
    THEN EMERGENCY
    ELSE IF is_worsening(symptom) THEN SEMI_URGENT
    ELSE ROUTINE

\* lines 196-206
blood_sugar_rule(symptom) ==
    IF any_in(lower(symptom), {"very high", "extremely", "dangerously"})
    THEN URGENT
    ELSE IF is_worsening(symptom) THEN SEMI_URGENT
    ELSE ROUTINE

\* back_pain_rule without the branch for chronic back pain
back_pain_rule_no_chronic(symptom) ==
    IF any_in(lower(symptom), {"severe", "can't move", "debilitating"})
    THEN SEMI_URGENT
    ELSE SELF_CARE

\* lines 208-218
back_pain_rule(symptom) ==
    IF any_in(lower(symptom), {"severe", "can't move", "debilitating"})
    THEN SEMI_URGENT
    ELSE IF is_chronic(symptom) THEN ROUTINE
    ELSE SELF_CARE

\* pattern_rules with the tiers tried from the least severe one
pattern_rules_reordered(symptom) ==
    IF _check_pattern_match(symptom, triage_agent.routine_indicators) THEN ROUTINE
    ELSE IF _check_pattern_match(symptom, triage_agent.semi_urgent_indicators) THEN SEMI_URGENT
    ELSE IF _check_pattern_match(symptom, triage_agent.urgent_indicators) THEN URGENT
    ELSE IF _check_pattern_match(symptom, triage_agent.emergency_indicators) THEN EMERGENCY
    ELSE IF is_chronic(symptom) /\ is_worsening(symptom) THEN ROUTINE
    ELSE SELF_CARE

\* pattern_rules without the fallback for a chronic condition that worsens
pattern_rules_no_fallback(symptom) ==
    IF _check_pattern_match(symptom, triage_agent.emergency_indicators) THEN EMERGENCY
    ELSE IF _check_pattern_match(symptom, triage_agent.urgent_indicators) THEN URGENT
    ELSE IF _check_pattern_match(symptom, triage_agent.semi_urgent_indicators) THEN SEMI_URGENT
    ELSE IF _check_pattern_match(symptom, triage_agent.routine_indicators) THEN ROUTINE
    ELSE SELF_CARE

\* lines 220-248: standard pattern matching, then the fallbacks
pattern_rules(symptom) ==
    IF _check_pattern_match(symptom, triage_agent.emergency_indicators) THEN EMERGENCY
    ELSE IF _check_pattern_match(symptom, triage_agent.urgent_indicators) THEN URGENT
    ELSE IF _check_pattern_match(symptom, triage_agent.semi_urgent_indicators) THEN SEMI_URGENT
    ELSE IF _check_pattern_match(symptom, triage_agent.routine_indicators) THEN ROUTINE
    ELSE IF is_chronic(symptom) /\ is_worsening(symptom) THEN ROUTINE
    ELSE SELF_CARE

\* domain_rules with the blood-sugar override tried before the asthma one
domain_rules_blood_sugar_first(symptom) ==
    IF Contains(lower(symptom), "blood sugar")
          \/ Contains(lower(symptom), "diabetes")
    THEN blood_sugar_rule(symptom)
    ELSE IF Contains(lower(symptom), "asthma") THEN asthma_rule(symptom)
    ELSE IF Contains(lower(symptom), "back pain") THEN back_pain_rule(symptom)
    ELSE pattern_rules(symptom)

\* lines 183-248: everything after the intensifier override
domain_rules(symptom) ==
    IF Contains(lower(symptom), "asthma") THEN asthma_rule(symptom)
    ELSE IF Contains(lower(symptom), "blood sugar")
              \/ Contains(lower(symptom), "diabetes")
         THEN blood_sugar_rule(symptom)
    ELSE IF Contains(lower(symptom), "back pain") THEN back_pain_rule(symptom)
    ELSE pattern_rules(symptom)

\* classify_unit without the inner test for a pain/breathing term
classify_unit_any_intensifier(symptom) ==
    IF any_in(lower(symptom), intensifier_terms) THEN EMERGENCY
    ELSE domain_rules(symptom)

\* the tier one iteration appends to severity_levels
classify_unit(symptom) ==
    IF intensifier_override(symptom) THEN EMERGENCY
    ELSE domain_rules(symptom)

\* ------------------------------------------------------------------------
\* Aggregator (classify_severity, lines 250-267)
\* ------------------------------------------------------------------------
severity_order ==
    EMERGENCY :> 0 @@ URGENT :> 1 @@ SEMI_URGENT :> 2 @@ ROUTINE :> 3 @@ SELF_CARE :> 4

\* insertion of x behind every element whose key is not larger (stable)
RECURSIVE insert_sorted(_, _)
insert_sorted(sorted, x) ==
    IF sorted = <<>> THEN <<x>>
    ELSE IF severity_order[Head(sorted)] <= severity_order[x]
         THEN <<Head(sorted)>> \o insert_sorted(Tail(sorted), x)
         ELSE <<x>> \o sorted

\* severity_levels.sort(key=lambda x: severity_order[x])
RECURSIVE sort_by_severity(_)
sort_by_severity(levels) ==
    IF levels = <<>> THEN <<>>
    ELSE insert_sorted(sort_by_severity(SubSeq(levels, 1, Len(levels) - 1)),
                       levels[Len(levels)])

\* most_severe without the sort: the tier of the first unit
most_severe_unsorted(severity_levels) ==
    IF severity_levels # <<>>
    THEN severity_levels[1]
    ELSE SELF_CARE

most_severe(severity_levels) ==
    IF severity_levels # <<>>
    THEN sort_by_severity(severity_levels)[1]
    ELSE SELF_CARE

\* the tiers of the units, in order
RECURSIVE classify_units(_)
classify_units(units) ==
    IF units = <<>> THEN <<>>
    ELSE <<classify_unit(Head(units))>> \o classify_units(Tail(units))

\* classify_severity as a function of the report
classify_severity(text) == most_severe(classify_units(segment(text)))

\* ------------------------------------------------------------------------
\* Pathway mapper, pediatric detector, instruction composer
\* ------------------------------------------------------------------------
\* pathway_map with two tiers sharing a pathway
pathway_map_collapsed ==
    EMERGENCY :> EMERGENCY_ROOM @@ URGENT :> URGENT_CARE @@
    SEMI_URGENT :> PRIMARY_CARE @@ ROUTINE :> SELF_MANAGEMENT @@
    SELF_CARE :> SELF_MANAGEMENT

pathway_map ==
    EMERGENCY :> EMERGENCY_ROOM @@ URGENT :> URGENT_CARE @@
    SEMI_URGENT :> PRIMARY_CARE @@ ROUTINE :> TELEHEALTH @@
    SELF_CARE :> SELF_MANAGEMENT

\* a dictionary lookup d[k]: the value, or the KeyError Python raises
KeyError == "KeyError"

lookup(d, k) == IF k \in DOMAIN d THEN d[k] ELSE KeyError

recommend_care_pathway(severity) == lookup(pathway_map, severity)

Digits == {"0", "1", "2", "3", "4", "5", "6", "7", "8", "9"}

\* the class [\s-]
SpaceOrDash == Whitespace \cup {"-"}

\* text[from-1:to-1] consists of characters of [\s-] only
all_space_or_dash(text, from, to) ==
    \A m \in from..(to - 1) : CharAt(text, m) \in SpaceOrDash

\* re.search(r"(\d+)[\s-]*(month|year|week)[\s-]*(old)", text)
age_phrase(text) ==
    \E d \in 1..Len(text) :
        /\ CharAt(text, d) \in Digits
        /\ \E j \in (d + 1)..Len(text) :
              /\ all_space_or_dash(text, d + 1, j)
              /\ \E w \in {"month", "year", "week"} :
                    /\ j + Len(w) - 1 <= Len(text)
                    /\ SubSeq(text, j, j + Len(w) - 1) = w
                    /\ \E q \in (j + Len(w))..(Len(text) - 2) :
                          /\ all_space_or_dash(text, j + Len(w), q)
                          /\ SubSeq(text, q, q + 2) = "old"

pediatric_indicators == <<
    <<{"baby", "infant", "child", "kid", "toddler", "newborn"}>>,
    <<{"my son"}>>, <<{"my daughter"}>>, <<{"pediatric"}>>, <<{"children"}>> >>

_is_pediatric_case(text) ==
    \/ _check_pattern_match(text, pediatric_indicators)
    \/ age_phrase(lower(text))

pediatric_instructions ==
    EMERGENCY_ROOM :>
        ("SEEK IMMEDIATE MEDICAL ATTENTION FOR YOUR CHILD. Go to the nearest pediatric emergency room or call emergency services (911). "
         \o "For infants and young children, emergency symptoms require immediate professional evaluation.") @@
    URGENT_CARE :>
        ("Take your child to a pediatric urgent care center within 24 hours. If symptoms worsen, go to the emergency room immediately. "
         \o "Children can deteriorate quickly, so close monitoring is essential.") @@
    PRIMARY_CARE :>
        ("Schedule an appointment with your child's pediatrician within the next few days. "
         \o "In the meantime, monitor your child's symptoms closely and ensure they stay hydrated.") @@
    TELEHEALTH :>
        ("Consider scheduling a telehealth appointment with your child's pediatrician. "
         \o "Have a thermometer and other relevant home medical equipment ready for the consultation.") @@
    SELF_MANAGEMENT :>
        ("Your child's symptoms can likely be managed at home with appropriate care. "
         \o "Ensure they get plenty of rest, stay hydrated, and monitor their temperature regularly. "
         \o "If symptoms persist beyond 48 hours, worsen suddenly, or if your child appears unusually lethargic, consult a healthcare provider.")

\* adult_instructions without the entry for self-management
adult_instructions_incomplete ==
    EMERGENCY_ROOM :>
        "SEEK IMMEDIATE MEDICAL ATTENTION. Go to the nearest emergency room or call emergency services (911)." @@
    URGENT_CARE :>
        "Visit an urgent care center within 24 hours. If symptoms worsen, go to the emergency room." @@
    PRIMARY_CARE :>
        "Schedule an appointment with your primary care physician within the next few days." @@
    TELEHEALTH :>
        "Consider scheduling a telehealth appointment with a healthcare provider."

adult_instructions ==
    EMERGENCY_ROOM :>
        "SEEK IMMEDIATE MEDICAL ATTENTION. Go to the nearest emergency room or call emergency services (911)." @@
    URGENT_CARE :>
        "Visit an urgent care center within 24 hours. If symptoms worsen, go to the emergency room." @@
    PRIMARY_CARE :>
        "Schedule an appointment with your primary care physician within the next few days." @@
    TELEHEALTH :>
        "Consider scheduling a telehealth appointment with a healthcare provider." @@
    SELF_MANAGEMENT :>
        ("Your symptoms can likely be managed at home with rest and over-the-counter remedies. "
         \o "If symptoms persist or worsen, consult a healthcare provider.")

\* get_care_instructions without the pediatric table
get_care_instructions_adult_only(pathway, text) ==
    lookup(adult_instructions, pathway)

get_care_instructions(pathway, text) ==
    IF _is_pediatric_case(text)
    THEN lookup(pediatric_instructions, pathway)
    ELSE lookup(adult_instructions, pathway)

\* triage_result_of with a pediatric report moved up to the urgent tier when
\* its symptoms alone put it below
triage_result_of_pediatric_escalated(severity, text) ==
    LET raised == IF _is_pediatric_case(text)
                     /\ severity \in {SEMI_URGENT, ROUTINE, SELF_CARE}
                  THEN URGENT ELSE severity
        pathway == recommend_care_pathway(raised)
        instructions == get_care_instructions(pathway, text)
    IN  IF pathway = KeyError \/ instructions = KeyError
        THEN [raised |-> KeyError]
        ELSE [severity |-> raised, care_pathway |-> pathway,
              instructions |-> instructions]

\* the dictionary triage_symptoms returns, from the aggregated severity; a
\* KeyError of either lookup propagates to the caller
triage_result_of(severity, text) ==
    LET pathway == recommend_care_pathway(severity)
        instructions == get_care_instructions(pathway, text)
    IN  IF pathway = KeyError \/ instructions = KeyError
        THEN [raised |-> KeyError]
        ELSE [severity |-> severity, care_pathway |-> pathway,
              instructions |-> instructions]

\* triage_symptoms as a function of the report
triage_symptoms(text) == triage_result_of(classify_severity(text), text)

\* ------------------------------------------------------------------------
\* analyze_symptoms (src/app.py): outcomes of the external collaborators and
\* the literal texts the handler answers with
\* ------------------------------------------------------------------------

\* what pubmed_rag.get_context_from_symptoms can do
RetrievalOutcomes == {"context", "raises"}

\* a text of fewer than three characters after strip() is refused before any
\* network call (pubmed_rag.py, lines 289-291)
too_short(text) == text = "" \/ Len(strip(text)) < 3

retrieval_outcomes(text) ==
    IF too_short(text) THEN {"raises"} ELSE RetrievalOutcomes

RetrievedContext == "Relevant medical information:\n\n<sources>"

GenericContext ==
    "Unable to retrieve specific medical literature at this time. "
    \o "The analysis will proceed based on general medical knowledge."

\* Exceptions.  An exception is [class, message]; bases[c] holds c and the
\* classes c inherits from, as far as an except clause of the handler can
\* tell them apart.  The builtin ConnectionError the handler raises is no
\* requests.exceptions.ConnectionError.
bases ==
    "requests.ConnectionError" :>
        {"requests.ConnectionError", "requests.RequestException", "OSError", "Exception"} @@
    "requests.ReadTimeout" :>
        {"requests.ReadTimeout", "requests.Timeout", "requests.RequestException",
         "OSError", "Exception"} @@
    "requests.ConnectTimeout" :>
        {"requests.ConnectTimeout", "requests.ConnectionError", "requests.Timeout",
         "requests.RequestException", "OSError", "Exception"} @@
    "requests.RequestException" :> {"requests.RequestException", "OSError", "Exception"} @@
    "requests.JSONDecodeError" :>
        {"requests.JSONDecodeError", "json.JSONDecodeError", "ValueError",
         "requests.RequestException", "OSError", "Exception"} @@
    "json.JSONDecodeError" :> {"json.JSONDecodeError", "ValueError", "Exception"} @@
    "ConnectionError" :> {"ConnectionError", "OSError", "Exception"} @@
    "AttributeError" :> {"AttributeError", "Exception"} @@
    "ValueError" :> {"ValueError", "Exception"} @@
    "RuntimeError" :> {"RuntimeError", "Exception"}

isinstance(e, class) == class \in bases[e.class]

exception(class, message) == [class |-> class, message |-> message]

\* the result of a guarded block: a text, or an exception that leaves it
text_result(text) == [kind |-> "text", text |-> text]

raise_result(e) == [kind |-> "raise", exc |-> e]

\* the exception get_context_from_symptoms raises (pubmed_rag.py, 289-313)
retrieval_raised(text) ==
    IF too_short(text)
    THEN exception("ValueError", "Symptom text is too short or empty")
    ELSE exception("RuntimeError", "Failed to retrieve medical context: <exception message>")

\* s.replace(old, new) for a one-character old
RECURSIVE replace(_, _, _)
replace(s, old, new) ==
    IF s = "" THEN ""
    ELSE (IF CharAt(s, 1) = old THEN new ELSE CharAt(s, 1))
            \o replace(Tail_(s, 2), old, new)

\* process_symptoms, line 255: the text PubMed is searched for and the store
\* is queried with
clean_symptoms(text) == strip(replace(replace(text, "\n", " "), "-", " "))

\* FAISS.from_documents(splits, self.embeddings): the index over the
\* documents a request fetched for its text
vector_store_of(request, text) ==
    [request |-> request, documents |-> clean_symptoms(text)]

\* build_vector_store, line 218 (mock_mode stays False)
build_vector_store(self, store) == [self EXCEPT !.vector_store = store]

\* the states get_context_from_symptoms can leave the shared PubMedRAG in:
\* the store is replaced unless the call fails before line 271
rag_after_retrieval(self, outcome, request, text) ==
    IF too_short(text) THEN {self}
    ELSE IF outcome = "context"
    THEN {build_vector_store(self, vector_store_of(request, text))}
    ELSE {self, build_vector_store(self, vector_store_of(request, text))}

\* lines 44-51: the context, or the notice the except clause substitutes
retrieve_context(outcome, text) ==
    IF outcome = "context" THEN text_result(RetrievedContext)
    ELSE IF isinstance(retrieval_raised(text), "Exception")
         THEN text_result(GenericContext)
         ELSE raise_result(retrieval_raised(text))

\* what the availability probe GET /api/tags can do (lines 83-97)
ProbeOutcomes ==
    {"listed", "status_not_200", "connection_error", "connect_timeout",
     "read_timeout", "invalid_json", "not_listed", "not_an_object"}

\* the exception raised inside the inner try block, for a failing probe
probe_raised(outcome) ==
    CASE outcome = "status_not_200" ->
            exception("ConnectionError", "Ollama health check failed")
      [] outcome = "connection_error" ->
            exception("requests.ConnectionError", "<exception message>")
      [] outcome = "connect_timeout" ->
            exception("requests.ConnectTimeout", "<exception message>")
      [] outcome = "read_timeout" ->
            exception("requests.ReadTimeout", "<exception message>")
      [] outcome = "invalid_json" ->
            exception("requests.JSONDecodeError", "<exception message>")
      [] outcome = "not_listed" ->
            exception("ConnectionError", "Model medllama2 not available in Ollama")
      [] OTHER ->
            exception("AttributeError", "<exception message>")

\* the except clauses of lines 99-104: the exception that leaves the probe
probe_except(e) ==
    IF isinstance(e, "requests.ConnectionError") \/ isinstance(e, "requests.Timeout")
    THEN exception("ConnectionError", "Ollama service is not running")
    ELSE IF isinstance(e, "ValueError")
    THEN exception("ConnectionError", "Error checking Ollama model availability")
    ELSE e

\* what the generation request POST /api/generate can do (lines 106-142)
GenerationOutcomes ==
    {"response", "no_response_field", "error_memory", "error_other",
     "invalid_json", "not_an_object", "read_timeout", "connect_timeout",
     "connection_error", "request_exception"}

GeneratedText == "<generated text>"

EmergencyTimeoutText ==
    "MEDICAL EMERGENCY DETECTED: Your symptoms suggest a potentially life-threatening condition that requires IMMEDIATE medical attention. "
    \o "Please call emergency services (911) or go to the nearest emergency room immediately. "
    \o "Do not wait for the AI analysis to complete."

DelayText ==
    "I apologize for the delay. The analysis is taking longer than expected. Please try again with a more concise description of your main symptoms."

CannotConnectText ==
    "I'm unable to connect to the medical AI service at the moment. Please ensure Ollama is running with the medllama2 model loaded."

MemoryText ==
    "The medical AI model requires more memory than is currently available on this system. "
    \o "Please try again later when more system resources are available, or consider using a smaller model."

ModelErrorText ==
    "The medical AI encountered an error: <error message>. Please try again later."

InvalidJsonText ==
    "I apologize, but I encountered an issue processing your symptoms. Please try again with a more concise description."

NoResponseText == "I'm sorry, but I couldn't generate a response."

\* the text of line 157
unexpected_text(message) ==
    "An unexpected error occurred: " \o message
        \o ". Please try again with a simpler description."

\* outer_except without the last clause, "except Exception"
outer_except_no_catch_all(e, severity) ==
    IF isinstance(e, "requests.Timeout")
    THEN text_result(IF severity = "emergency" THEN EmergencyTimeoutText
                     ELSE DelayText)
    ELSE IF isinstance(e, "requests.ConnectionError")
    THEN text_result(CannotConnectText)
    ELSE raise_result(e)

\* the except clauses of lines 143-157, tried in order
outer_except(e, severity) ==
    IF isinstance(e, "requests.Timeout")
    THEN text_result(IF severity = "emergency" THEN EmergencyTimeoutText
                     ELSE DelayText)
    ELSE IF isinstance(e, "requests.ConnectionError")
    THEN text_result(CannotConnectText)
    ELSE IF isinstance(e, "Exception")
    THEN text_result(unexpected_text(e.message))
    ELSE raise_result(e)

\* lines 83-104 and the handler their exception reaches; no text when the
\* probe passes
probe(outcome, severity) ==
    IF outcome = "listed" THEN text_result("")
    ELSE outer_except(probe_except(probe_raised(outcome)), severity)

\* the except clause of lines 140-142, around the parsing of the reply
json_except(e, severity) ==
    IF isinstance(e, "json.JSONDecodeError") THEN text_result(InvalidJsonText)
    ELSE outer_except(e, severity)

\* lines 106-157
generate(outcome, severity) ==
    CASE outcome = "response" -> text_result(GeneratedText)
      [] outcome = "no_response_field" -> text_result(NoResponseText)
      [] outcome = "error_memory" -> text_result(MemoryText)
      [] outcome = "error_other" -> text_result(ModelErrorText)
      [] outcome = "invalid_json" ->
            json_except(exception("json.JSONDecodeError", "<exception message>"), severity)
      [] outcome = "not_an_object" ->
            json_except(exception("AttributeError", "<exception message>"), severity)
      [] outcome = "read_timeout" ->
            outer_except(exception("requests.ReadTimeout", "<exception message>"), severity)
      [] outcome = "connect_timeout" ->
            outer_except(exception("requests.ConnectTimeout", "<exception message>"), severity)
      [] outcome = "connection_error" ->
            outer_except(exception("requests.ConnectionError", "<exception message>"), severity)
      [] OTHER ->
            outer_except(exception("requests.RequestException", "<exception message>"), severity)

\* the HTTPException of line 170
InternalErrorBody == [detail |-> "Error analyzing symptoms: <exception message>"]

\* response_of with the triage block reset whenever no text was generated
response_of_downgraded(ai_response, triage_result) ==
    [response |-> ai_response,
     triage |-> IF ai_response = GeneratedText
                THEN [severity |-> triage_result.severity,
                      care_pathway |-> triage_result.care_pathway,
                      instructions |-> triage_result.instructions]
                ELSE [severity |-> SELF_CARE,
                      care_pathway |-> SELF_MANAGEMENT,
                      instructions |-> triage_result.instructions]]

\* the dictionary of lines 160-167
response_of(ai_response, triage_result) ==
    [response |-> ai_response,
     triage |-> [severity |-> triage_result.severity,
                 care_pathway |-> triage_result.care_pathway,
                 instructions |-> triage_result.instructions]]

\* ------------------------------------------------------------------------
\* Symptom reports submitted to the service
\* ------------------------------------------------------------------------
Fragments ==
    {"\n", " - ", "* ", ", ", " ",
     "severe", "pain", "asthma", "worse", "weeks", "chronic", "burn", "Fell",
     "stroke", "rash", "mild ", "baby", "back ", "diabetes"}

RECURSIVE reports_upto(_)
reports_upto(k) ==
    IF k = 0 THEN {""}
    ELSE LET shorter == reports_upto(k - 1)
         IN  shorter \cup
             {r \in {t \o f : t \in shorter, f \in Fragments} : Len(r) <= MaxLen}

Reports == reports_upto(MaxFragments)

RequestReports == reports_upto(MaxRequestFragments)

\* Reports written the way users write them.  One-symptom reports:
UnitExamples ==
    {"common cold", "my child has a mild fever", "my son is 3 years old",
     "severe back pain", "worst back pain", "back pain", "back pain can't move",
     "debilitating back pain", "chronic back pain", "back pain for weeks",
     "back pain for weeks getting worse", "Severe Back Pain",
     "asthma and back pain", "back pain and diabetes",
     "asthma and diabetes very high",
     "asthma", "asthma attack", "asthma worse", "asthma with chest pain",
     "asthma and high fever", "severe asthma", "asthma and severe chest pain",
     "chronic cough getting worse", "diabetes ongoing and elevated",
     "persistent vomiting getting worse", "ongoing sinus pain increased",
     "chronic asthma getting worse",
     "severe chronic pain getting worse"}

\* the symptoms of the reports that list several
ListPhrases == {"mild rash", "chest pain", "- severe", "headache", "3", "month old"}

\* the four ways the segmenter knows to separate the symptoms of a list
Delimiters == {"\n", " - ", Bullet, ", "}

\* delimiter.join(units)
RECURSIVE join(_, _)
join(units, delimiter) ==
    IF units = <<>> THEN ""
    ELSE IF Len(units) = 1 THEN units[1]
    ELSE units[1] \o delimiter \o join(Tail(units), delimiter)

\* the lists of one to k phrases
RECURSIVE lists_upto(_)
lists_upto(k) ==
    IF k = 0 THEN {}
    ELSE LET shorter == lists_upto(k - 1)
         IN  {<<ph>> : ph \in ListPhrases} \cup shorter
                 \cup {Append(l, ph) : l \in shorter, ph \in ListPhrases}

ExampleReports ==
    UnitExamples
        \cup {join(l, d) : l \in lists_upto(MaxUnits), d \in Delimiters}

\* ------------------------------------------------------------------------
\* One request to POST /analyze_symptoms
\* ------------------------------------------------------------------------
NoResult == [none |-> TRUE]

VARIABLES
    symptoms,         \* the form field of the request
    pc,               \* position of the request in the handler
    symptom_list,     \* classify_severity: the units
    severity_levels,  \* classify_severity: the tiers appended so far
    triage_result,    \* what triage_symptoms returned
    medical_context,  \* the context put into the prompt
    ai_response,      \* the response text
    calls,            \* the collaborators called so far, in order
    reply             \* what the client receives

vars ==
    <<triage_agent, pubmed_rag, symptoms, pc, symptom_list, severity_levels,
      triage_result, medical_context, ai_response, calls, reply>>

Init ==
    /\ triage_agent = TriageAgent
    /\ pubmed_rag = PubMedRAG
    /\ symptoms \in Reports
    /\ pc = "segment"
    /\ symptom_list = <<>>
    /\ severity_levels = <<>>
    /\ triage_result = NoResult
    /\ medical_context = ""
    /\ ai_response = ""
    /\ calls = <<>>
    /\ reply = NoResult

\* classify_severity, lines 150-163
Segment ==
    /\ pc = "segment"
    /\ symptom_list' = segment(symptoms)
    /\ pc' = "classify"
    /\ UNCHANGED <<triage_agent, pubmed_rag, symptoms, severity_levels,
                   triage_result, medical_context, ai_response, calls, reply>>

\* classify_severity, one iteration of the loop of lines 168-248
ClassifyUnit ==
    /\ pc = "classify"
    /\ Len(severity_levels) < Len(symptom_list)
    /\ severity_levels' =
          Append(severity_levels,
                 classify_unit(symptom_list[Len(severity_levels) + 1]))
    /\ UNCHANGED <<triage_agent, pubmed_rag, symptoms, pc, symptom_list,
                   triage_result, medical_context, ai_response, calls, reply>>

\* classify_severity, lines 250-267, and the rest of triage_symptoms
Triage ==
    /\ pc = "classify"
    /\ Len(severity_levels) = Len(symptom_list)
    /\ severity_levels' = sort_by_severity(severity_levels)
    /\ triage_result' = triage_result_of(most_severe(severity_levels), symptoms)
    /\ IF "raised" \in DOMAIN triage_result'
       THEN \* the exception reaches lines 169-170
            /\ calls' = Append(calls, [call |-> "triage", outcome |-> "raises"])
            /\ reply' = [status |-> 500, body |-> InternalErrorBody]
            /\ pc' = "done"
       ELSE /\ calls' = Append(calls, [call |-> "triage", outcome |-> "returns"])
            /\ pc' = "retrieve"
            /\ UNCHANGED reply
    /\ UNCHANGED <<triage_agent, pubmed_rag, symptoms, symptom_list,
                   medical_context, ai_response>>

\* the outer except clause, lines 169-170
internal_error == [status |-> 500, body |-> InternalErrorBody]

\* lines 44-51
RetrieveContext ==
    /\ pc = "retrieve"
    /\ \E outcome \in retrieval_outcomes(symptoms) :
          LET r == retrieve_context(outcome, symptoms)
          IN  /\ calls' = Append(calls, [call |-> "retrieval", outcome |-> outcome])
              /\ pubmed_rag' \in rag_after_retrieval(pubmed_rag, outcome, 1, symptoms)
              /\ IF r.kind = "text"
                 THEN /\ medical_context' = r.text
                      /\ pc' = "probe"
                      /\ UNCHANGED reply
                 ELSE /\ reply' = internal_error
                      /\ pc' = "done"
                      /\ UNCHANGED medical_context
    /\ UNCHANGED <<triage_agent, symptoms, symptom_list, severity_levels,
                   triage_result, ai_response>>

\* Probe with the generation request sent whatever the probe found
Probe_without_check ==
    /\ pc = "probe"
    /\ \E outcome \in ProbeOutcomes :
          /\ calls' = Append(calls, [call |-> "probe", outcome |-> outcome])
          /\ ai_response' = ""
          /\ pc' = "generate"
          /\ UNCHANGED reply
    /\ UNCHANGED <<triage_agent, pubmed_rag, symptoms, symptom_list,
                   severity_levels, triage_result, medical_context>>

\* lines 83-104, and the except clauses an exception of the probe reaches
Probe ==
    /\ pc = "probe"
    /\ \E outcome \in ProbeOutcomes :
          LET r == probe(outcome, triage_result.severity)
          IN  /\ calls' = Append(calls, [call |-> "probe", outcome |-> outcome])
              /\ IF r.kind = "raise"
                 THEN /\ reply' = internal_error
                      /\ pc' = "done"
                      /\ UNCHANGED ai_response
                 ELSE /\ ai_response' = r.text
                      /\ pc' = IF outcome = "listed" THEN "generate" ELSE "respond"
                      /\ UNCHANGED reply
    /\ UNCHANGED <<triage_agent, pubmed_rag, symptoms, symptom_list,
                   severity_levels, triage_result, medical_context>>

\* lines 106-157
Generate ==
    /\ pc = "generate"
    /\ \E outcome \in GenerationOutcomes :
          LET r == generate(outcome, triage_result.severity)
          IN  /\ calls' = Append(calls, [call |-> "generate", outcome |-> outcome])
              /\ IF r.kind = "raise"
                 THEN /\ reply' = internal_error
                      /\ pc' = "done"
                      /\ UNCHANGED ai_response
                 ELSE /\ ai_response' = r.text
                      /\ pc' = "respond"
                      /\ UNCHANGED reply
    /\ UNCHANGED <<triage_agent, pubmed_rag, symptoms, symptom_list,
                   severity_levels, triage_result, medical_context>>

\* lines 159-167
Respond ==
    /\ pc = "respond"
    /\ reply' = [status |-> 200, body |-> response_of(ai_response, triage_result)]
    /\ pc' = "done"
    /\ UNCHANGED <<triage_agent, pubmed_rag, symptoms, symptom_list,
                   severity_levels, triage_result, medical_context, ai_response,
                   calls>>

\* triage_symptoms applied to a report
Next ==
    \/ Segment
    \/ ClassifyUnit
    \/ Triage

Spec == Init /\ [][Next]_vars

\* analyze_symptoms applied to a request
AnalyzeInit ==
    /\ triage_agent = TriageAgent
    /\ pubmed_rag = PubMedRAG
    /\ symptoms \in RequestReports
    /\ pc = "segment"
    /\ symptom_list = <<>>
    /\ severity_levels = <<>>
    /\ triage_result = NoResult
    /\ medical_context = ""
    /\ ai_response = ""
    /\ calls = <<>>
    /\ reply = NoResult

AnalyzeNext ==
    \/ Segment
    \/ ClassifyUnit
    \/ Triage
    \/ RetrieveContext
    \/ Probe
    \/ Generate
    \/ Respond

Analyze == AnalyzeInit /\ [][AnalyzeNext]_vars

\* triage_symptoms applied to an example report
ExamplesInit ==
    /\ triage_agent = TriageAgent
    /\ pubmed_rag = PubMedRAG
    /\ symptoms \in ExampleReports
    /\ pc = "segment"
    /\ symptom_list = <<>>
    /\ severity_levels = <<>>
    /\ triage_result = NoResult
    /\ medical_context = ""
    /\ ai_response = ""
    /\ calls = <<>>
    /\ reply = NoResult

Examples == ExamplesInit /\ [][Next]_vars

\* ------------------------------------------------------------------------
\* Concurrent calls of triage_symptoms on the one agent of app.py.  The
\* handler is a plain "def", which the framework runs in a pool of threads,
\* so the calls interleave.  symptoms, pc, symptom_list, severity_levels and
\* triage_result hold one value per invocation: they are the arguments and
\* local variables of its frames.
\* ------------------------------------------------------------------------
Invocations == 1..MaxInvocations

ConcurrentReports ==
    {"", "mild rash\nchest pain", "3 - month old", "asthma worse, burn"}

ConcurrentInit ==
    /\ triage_agent = TriageAgent
    /\ pubmed_rag = PubMedRAG
    /\ symptoms \in [Invocations -> ConcurrentReports]
    /\ pc = [i \in Invocations |-> "segment"]
    /\ symptom_list = [i \in Invocations |-> <<>>]
    /\ severity_levels = [i \in Invocations |-> <<>>]
    /\ triage_result = [i \in Invocations |-> NoResult]
    /\ medical_context = ""
    /\ ai_response = ""
    /\ calls = <<>>
    /\ reply = NoResult

\* classify_severity, lines 150-163, in invocation i
InvokeSegment(i) ==
    /\ pc[i] = "segment"
    /\ symptom_list' = [symptom_list EXCEPT ![i] = segment(symptoms[i])]
    /\ pc' = [pc EXCEPT ![i] = "classify"]
    /\ UNCHANGED <<triage_agent, pubmed_rag, symptoms, severity_levels,
                   triage_result, medical_context, ai_response, calls, reply>>

\* InvokeClassifyUnit with severity_levels kept on the agent
\* (self.severity_levels), one list for all invocations
InvokeClassifyUnit_shared_list(i) ==
    /\ pc[i] = "classify"
    /\ Len(severity_levels[i]) < Len(symptom_list[i])
    /\ severity_levels' =
          [j \in Invocations |->
              Append(severity_levels[i],
                     classify_unit(symptom_list[i][Len(severity_levels[i]) + 1]))]
    /\ UNCHANGED <<triage_agent, pubmed_rag, symptoms, pc, symptom_list,
                   triage_result, medical_context, ai_response, calls, reply>>

\* classify_severity, one iteration of the loop of lines 168-248, in
\* invocation i
InvokeClassifyUnit(i) ==
    /\ pc[i] = "classify"
    /\ Len(severity_levels[i]) < Len(symptom_list[i])
    /\ severity_levels' =
          [severity_levels EXCEPT ![i] =
              Append(@, classify_unit(symptom_list[i][Len(@) + 1]))]
    /\ UNCHANGED <<triage_agent, pubmed_rag, symptoms, pc, symptom_list,
                   triage_result, medical_context, ai_response, calls, reply>>

\* the invocations that are inside the loop, between two iterations
in_loop == {j \in Invocations : pc[j] = "classify" /\ severity_levels[j] # <<>>}

\* classify_severity, lines 250-267, and the rest of triage_symptoms, in
\* invocation i; the log notes which invocations were inside their loops
InvokeTriage(i) ==
    /\ pc[i] = "classify"
    /\ Len(severity_levels[i]) = Len(symptom_list[i])
    /\ severity_levels' =
          [severity_levels EXCEPT ![i] = sort_by_severity(@)]
    /\ triage_result' =
          [triage_result EXCEPT ![i] =
              triage_result_of(most_severe(severity_levels[i]), symptoms[i])]
    /\ pc' = [pc EXCEPT ![i] = "returned"]
    /\ calls' = Append(calls, [call |-> "triage", invocation |-> i,
                               meanwhile |-> in_loop \ {i}])
    /\ UNCHANGED <<triage_agent, pubmed_rag, symptoms, symptom_list,
                   medical_context, ai_response, reply>>

ConcurrentNext ==
    \E i \in Invocations :
        \/ InvokeSegment(i)
        \/ InvokeClassifyUnit(i)
        \/ InvokeTriage(i)

Concurrent == ConcurrentInit /\ [][ConcurrentNext]_vars

\* ------------------------------------------------------------------------
\* Concurrent requests in pubmed_rag.get_context_from_symptoms, on the one
\* PubMedRAG of app.py.  symptoms, pc and medical_context hold one value per
\* request; pubmed_rag.vector_store is the attribute they share.
\* ------------------------------------------------------------------------
RetrievalReports == {"", "chest pain", "mild rash\n- cough"}

\* query_vector_store, lines 231-239: the documents found, which come from
\* whatever store the attribute holds at that moment
query_vector_store(self, query) ==
    IF self.vector_store = None
    THEN raise_result(exception("ValueError",
                                "Vector store not initialized. Call build_vector_store first."))
    ELSE [kind |-> "documents", searched |-> self.vector_store, query |-> query]

RetrievalInit ==
    /\ triage_agent = TriageAgent
    /\ pubmed_rag = PubMedRAG
    /\ symptoms \in [Invocations -> RetrievalReports]
    /\ pc = [r \in Invocations |-> "search"]
    /\ symptom_list = <<>>
    /\ severity_levels = <<>>
    /\ triage_result = NoResult
    /\ medical_context = [r \in Invocations |-> NoResult]
    /\ ai_response = ""
    /\ calls = <<>>
    /\ reply = NoResult

\* the except clause of app.py, lines 47-51, for request r
context_failed(r) ==
    /\ medical_context' = [medical_context EXCEPT ![r] = text_result(GenericContext)]
    /\ pc' = [pc EXCEPT ![r] = "failed"]

\* pubmed_rag.py lines 289-291 and 255-268: the check of the text, the search
\* and the download of the articles, which find articles or fail
SearchPubmed(r) ==
    /\ pc[r] = "search"
    /\ \E found \in BOOLEAN :
          IF found /\ ~too_short(symptoms[r])
          THEN pc' = [pc EXCEPT ![r] = "build"] /\ UNCHANGED medical_context
          ELSE context_failed(r)
    /\ UNCHANGED <<triage_agent, pubmed_rag, symptoms, symptom_list,
                   severity_levels, triage_result, ai_response, calls, reply>>

\* line 271: the request replaces the store by one over its own documents
BuildVectorStore(r) ==
    /\ pc[r] = "build"
    /\ pubmed_rag' = build_vector_store(pubmed_rag, vector_store_of(r, symptoms[r]))
    /\ pc' = [pc EXCEPT ![r] = "query"]
    /\ UNCHANGED <<triage_agent, symptoms, symptom_list, severity_levels,
                   triage_result, medical_context, ai_response, calls, reply>>

\* line 274 and the rest of get_context_from_symptoms
QueryVectorStore(r) ==
    /\ pc[r] = "query"
    /\ LET found == query_vector_store(pubmed_rag, clean_symptoms(symptoms[r]))
       IN  IF found.kind = "raise"
           THEN context_failed(r)
           ELSE /\ medical_context' = [medical_context EXCEPT ![r] = found]
                /\ pc' = [pc EXCEPT ![r] = "returned"]
    /\ UNCHANGED <<triage_agent, pubmed_rag, symptoms, symptom_list,
                   severity_levels, triage_result, ai_response, calls, reply>>

RetrievalNext ==
    \E r \in Invocations :
        \/ SearchPubmed(r)
        \/ BuildVectorStore(r)
        \/ QueryVectorStore(r)

Retrieval == RetrievalInit /\ [][RetrievalNext]_vars

\* ------------------------------------------------------------------------
\* Properties
\* ------------------------------------------------------------------------

\* triage_symptoms has returned (or raised)
Returned == pc \notin {"segment", "classify"}

\* the text consists of whitespace only (or is empty)
IsBlank(text) == \A i \in 1..Len(text) : CharAt(text, i) \in Whitespace

\* the tiers and pathways as the specification names them
FiveTiers == {"emergency", "urgent", "semi-urgent", "routine", "self-care"}

FivePathways ==
    {"emergency_room", "urgent_care", "primary_care", "telehealth", "self_management"}

\* the explicit ordinal of a tier, Emergency = 0 < ... < SelfCare = 4
TierOrdinal(tier) ==
    CASE tier = "emergency" -> 0
      [] tier = "urgent" -> 1
      [] tier = "semi-urgent" -> 2
      [] tier = "routine" -> 3
      [] tier = "self-care" -> 4

\* the fixed table of the pathway mapper
ExpectedPathway(tier) ==
    CASE tier = "emergency" -> "emergency_room"
      [] tier = "urgent" -> "urgent_care"
      [] tier = "semi-urgent" -> "primary_care"
      [] tier = "routine" -> "telehealth"
      [] tier = "self-care" -> "self_management"

InstructionTexts ==
    {pediatric_instructions[p] : p \in DOMAIN pediatric_instructions}
        \cup {adult_instructions[p] : p \in DOMAIN adult_instructions}

\* C1 -- Totality: for every report, the empty and the whitespace-only ones
\* included, every unit gets one of the five tiers and triage_symptoms
\* returns without raising; its result holds one of the five tiers, one care
\* pathway and an instruction text; an empty or whitespace-only report yields
\* self-care / self_management.
C1_Totality ==
    /\ ~Returned =>
          /\ Len(severity_levels) <= Len(symptom_list)
          /\ \A i \in 1..Len(severity_levels) : severity_levels[i] \in FiveTiers
    /\ Returned =>
          /\ DOMAIN triage_result = {"severity", "care_pathway", "instructions"}
          /\ triage_result.severity \in FiveTiers
          /\ triage_result.care_pathway \in FivePathways
          /\ triage_result.instructions \in InstructionTexts
          /\ triage_result.instructions # ""
          /\ IsBlank(symptoms) =>
                /\ triage_result.severity = "self-care"
                /\ triage_result.care_pathway = "self_management"

\* a whitespace-only report, not empty, has been triaged as self-care
C1_Witness ==
    /\ Returned
    /\ symptoms # ""
    /\ IsBlank(symptoms)
    /\ "severity" \in DOMAIN triage_result
    /\ triage_result.severity = "self-care"
    /\ triage_result.care_pathway = "self_management"

\* C2 -- Fixed mapping: in every result the pathway is the fixed table applied
\* to the severity; the table is defined on exactly the five tiers and no two
\* tiers share a pathway.
C2_PathwayTable ==
    /\ DOMAIN pathway_map = FiveTiers
    /\ \A a, b \in DOMAIN pathway_map : pathway_map[a] = pathway_map[b] => a = b
    /\ \A t \in FiveTiers : recommend_care_pathway(t) = ExpectedPathway(t)
    /\ (Returned /\ "severity" \in DOMAIN triage_result) =>
          triage_result.care_pathway = ExpectedPathway(triage_result.severity)

\* a report has been triaged as routine and sent to telehealth
C2_Witness ==
    /\ Returned
    /\ "severity" \in DOMAIN triage_result
    /\ triage_result.severity = "routine"
    /\ triage_result.care_pathway = "telehealth"

\* C3 -- Worst case: when classify_severity leaves its loop, the severity it
\* returns is SelfCare for an empty list of tiers, and otherwise a tier of the
\* list whose explicit ordinal is the minimum of the list.
C3_WorstCase ==
    [][(pc = "classify" /\ pc' # "classify" /\ "severity" \in DOMAIN triage_result') =>
          IF severity_levels = <<>>
          THEN triage_result'.severity = "self-care"
          ELSE /\ \E i \in 1..Len(severity_levels) :
                     severity_levels[i] = triage_result'.severity
               /\ \A i \in 1..Len(severity_levels) :
                     TierOrdinal(triage_result'.severity)
                         <= TierOrdinal(severity_levels[i])]_vars

\* a report of several units has been triaged whose first unit is not the
\* most severe one: the result is the tier of a later unit
C3_Witness ==
    /\ Returned
    /\ "severity" \in DOMAIN triage_result
    /\ Len(symptom_list) >= 2
    /\ severity_levels[1] = triage_result.severity
    /\ severity_levels[Len(severity_levels)] # triage_result.severity
    /\ classify_unit(symptom_list[1]) # triage_result.severity

\* the request has been answered with a normal result
Answered == pc = "done" /\ reply.status = 200

\* the call to a collaborator that ended with the outcome
Called(call, outcome) ==
    \E i \in 1..Len(calls) : calls[i].call = call /\ calls[i].outcome = outcome

\* text generation failed: the probe did not pass, or the generation request
\* did not deliver a generated text
GenerationFailed ==
    \/ \E o \in ProbeOutcomes \ {"listed"} : Called("probe", o)
    \/ \E o \in GenerationOutcomes \ {"response"} : Called("generate", o)

\* the text tells the user to turn to the emergency services
DirectsToEmergency(text) ==
    LET t == lower(text)
    IN  \/ Contains(t, "emergency services")
        \/ Contains(t, "emergency room")
        \/ Contains(t, "911")

\* C4 -- Emergency fallback: whenever the core's severity is Emergency and
\* text generation fails in any way, the response text of analyze_symptoms
\* directs the user to the emergency services.
C4_EmergencyFallback ==
    (/\ Answered
     /\ reply.body.triage.severity = "emergency"
     /\ GenerationFailed)
        => DirectsToEmergency(reply.body.response)

\* the literal texts the handler substitutes for a generated text
IsUnexpectedText(text) ==
    /\ Len(text) > 30
    /\ SubSeq(text, 1, 30) = "An unexpected error occurred: "

IsFallbackText(text) ==
    \/ text \in {EmergencyTimeoutText, DelayText, CannotConnectText, MemoryText,
                 ModelErrorText, InvalidJsonText, NoResponseText}
    \/ IsUnexpectedText(text)

\* C5 -- Failures are absorbed: whatever a collaborator does (retrieval
\* raising, the probe or the generation request failing in any way), the
\* request ends with a normal {response, triage} result, never with an
\* HTTP 500; a failed retrieval leaves the generic notice as context and a
\* failed generation leaves a literal fallback text as response.
C5_FailuresAbsorbed ==
    /\ pc = "done" =>
          /\ reply.status = 200
          /\ DOMAIN reply.body = {"response", "triage"}
          /\ DOMAIN reply.body.triage = {"severity", "care_pathway", "instructions"}
          /\ GenerationFailed => IsFallbackText(reply.body.response)
          /\ ~GenerationFailed => reply.body.response = GeneratedText
    /\ Called("retrieval", "raises") => medical_context = GenericContext

\* a request whose retrieval raised and whose probe timed out has been
\* answered normally
C5_Witness ==
    /\ Answered
    /\ Called("retrieval", "raises")
    /\ Called("probe", "connect_timeout")
    /\ IsUnexpectedText(reply.body.response)

\* C6 -- Frame: the triage block of the answer is the result triage_symptoms
\* computes from the symptom text; once triage_symptoms has returned, no step
\* of the request (retrieval, probe, generation, success or failure) changes
\* that result or the text.
C6_TriageBlockUntouched ==
    [][/\ (pc = "classify" /\ pc' # "classify") =>
              triage_result' = triage_symptoms(symptoms)
       /\ Returned => (triage_result' = triage_result /\ symptoms' = symptoms)
       /\ (pc' = "done" /\ reply'.status = 200) =>
              /\ reply'.body.triage.severity = triage_result.severity
              /\ reply'.body.triage.care_pathway = triage_result.care_pathway
              /\ reply'.body.triage.instructions = triage_result.instructions]_vars

\* an urgent request has been answered after retrieval and generation failed
C6_Witness ==
    /\ Answered
    /\ Called("retrieval", "raises")
    /\ Called("generate", "connection_error")
    /\ reply.body.triage.severity = "urgent"
    /\ reply.body.triage = triage_result

\* the loop of classify_severity has just classified a unit
UnitClassified == pc = "classify" /\ Len(severity_levels) > 0

\* the unit classified last, lower-cased, and its tier
LastUnit == lower(symptom_list[Len(severity_levels)])

LastTier == severity_levels[Len(severity_levels)]

HasIntensifier(unit) ==
    \E t \in {"severe", "extreme", "intense", "unbearable", "worst"} : Contains(unit, t)

HasContext(unit) ==
    \E t \in {"pain", "headache", "chest", "breathing"} : Contains(unit, t)

HasDomainKeyword(unit) ==
    \E t \in {"asthma", "blood sugar", "diabetes", "back pain"} : Contains(unit, t)

HasChronic(unit) ==
    \E t \in {"chronic", "persistent", "ongoing", "months", "weeks"} : Contains(unit, t)

HasWorsening(unit) ==
    \E t \in {"worse", "worsening", "increased", "higher", "elevated"} : Contains(unit, t)

\* C7 -- Intensifier override first: a unit with an intensifier term and a
\* pain/breathing-context term is Emergency whatever the later rules say; a
\* unit with an intensifier term and no context term gets the tier the later
\* rules (domain overrides, tier patterns, fallbacks) give it.
C7_IntensifierFirst ==
    UnitClassified =>
        LET unit == LastUnit
        IN  HasIntensifier(unit) =>
                IF HasContext(unit)
                THEN LastTier = "emergency"
                ELSE LastTier = domain_rules(symptom_list[Len(severity_levels)])

\* a unit with an intensifier and a context term has been classified
\* Emergency although the later rules give it another tier
C7_Witness ==
    /\ UnitClassified
    /\ HasIntensifier(LastUnit)
    /\ HasContext(LastUnit)
    /\ LastTier = "emergency"
    /\ domain_rules(symptom_list[Len(severity_levels)]) # "emergency"

\* the pattern list of a tier
TierPatterns(tier) ==
    CASE tier = "emergency" -> emergency_indicators
      [] tier = "urgent" -> urgent_indicators
      [] tier = "semi-urgent" -> semi_urgent_indicators
      [] tier = "routine" -> routine_indicators

\* the tiers one of whose patterns the unit matches
MatchingTiers(unit) ==
    {tier \in {"emergency", "urgent", "semi-urgent", "routine"} :
        \E n \in 1..Len(TierPatterns(tier)) : re_search(TierPatterns(tier)[n], unit)}

\* C8 -- Tier order: a unit that triggers neither the intensifier override nor
\* a domain override gets the most severe of the tiers (Emergency, Urgent,
\* SemiUrgent, Routine) one of whose patterns it matches; if it matches none,
\* it is Routine when it has both a chronic and a worsening term and SelfCare
\* otherwise.
C8_TierOrder ==
    UnitClassified =>
        LET unit == LastUnit
            matching == MatchingTiers(unit)
        IN  (/\ ~(HasIntensifier(unit) /\ HasContext(unit))
             /\ ~HasDomainKeyword(unit))
                => IF matching # {}
                   THEN /\ LastTier \in matching
                        /\ \A tier \in matching :
                              TierOrdinal(LastTier) <= TierOrdinal(tier)
                   ELSE IF HasChronic(unit) /\ HasWorsening(unit)
                   THEN LastTier = "routine"
                   ELSE LastTier = "self-care"

\* a unit without override that matches patterns of two tiers or more has
\* been classified
C8_Witness ==
    /\ UnitClassified
    /\ ~(HasIntensifier(LastUnit) /\ HasContext(LastUnit))
    /\ ~HasDomainKeyword(LastUnit)
    /\ Cardinality(MatchingTiers(LastUnit)) >= 2
    /\ LastTier = "urgent"

\* the segmenter has just run
Segmented == pc = "classify" /\ severity_levels = <<>>

\* the delimiter the text is to be split by: the first of newline, " - ",
\* bullet, comma-space that occurs in it, "" if none does
ChosenDelimiter(text) ==
    IF Contains(text, "\n") THEN "\n"
    ELSE IF Contains(text, " - ") THEN " - "
    ELSE IF Contains(text, "* ") THEN "* "
    ELSE IF Contains(text, ", ") THEN ", "
    ELSE ""

\* the text without the occurrences of the delimiter, scanned from the left
RECURSIVE WithoutDelimiter(_, _)
WithoutDelimiter(text, d) ==
    IF text = "" \/ d = "" THEN text
    ELSE IF Len(text) >= Len(d) /\ SubSeq(text, 1, Len(d)) = d
         THEN WithoutDelimiter(SubSeq(text, Len(d) + 1, Len(text)), d)
         ELSE SubSeq(text, 1, 1) \o WithoutDelimiter(SubSeq(text, 2, Len(text)), d)

\* the number of occurrences of the delimiter, scanned from the left
RECURSIVE Occurrences(_, _)
Occurrences(text, d) ==
    IF text = "" \/ d = "" \/ Len(text) < Len(d) THEN 0
    ELSE IF SubSeq(text, 1, Len(d)) = d
         THEN 1 + Occurrences(SubSeq(text, Len(d) + 1, Len(text)), d)
         ELSE Occurrences(SubSeq(text, 2, Len(text)), d)

\* the text without its whitespace characters
RECURSIVE Squeeze(_)
Squeeze(text) ==
    IF text = "" THEN ""
    ELSE (IF SubSeq(text, 1, 1) \in Whitespace THEN "" ELSE SubSeq(text, 1, 1))
            \o Squeeze(SubSeq(text, 2, Len(text)))

RECURSIVE Joined(_)
Joined(units) == IF units = <<>> THEN "" ELSE Head(units) \o Joined(Tail(units))

\* C9 -- One delimiter type: the units are the pieces of the text between the
\* occurrences of the chosen delimiter (first of newline, " - ", bullet,
\* comma-space that occurs), trimmed, the empty ones dropped: no unit holds the
\* chosen delimiter, nothing else is removed from the text (delimiters of
\* lower priority stay inside the units), there are at most one more unit
\* than occurrences, and every unit is trimmed and non-empty.
C9_OneDelimiterType ==
    Segmented =>
        LET d == ChosenDelimiter(symptoms)
        IN  /\ \A i \in 1..Len(symptom_list) :
                  /\ symptom_list[i] # ""
                  /\ SubSeq(symptom_list[i], 1, 1) \notin Whitespace
                  /\ SubSeq(symptom_list[i], Len(symptom_list[i]),
                            Len(symptom_list[i])) \notin Whitespace
                  /\ d # "" => ~Contains(symptom_list[i], d)
            /\ Squeeze(Joined(symptom_list)) = Squeeze(WithoutDelimiter(symptoms, d))
            /\ Len(symptom_list) <= Occurrences(symptoms, d) + 1

\* a text with " - " and with comma-space has been split at " - " only: a
\* unit still holds the comma-space, in front of a word
C9_Witness ==
    /\ Segmented
    /\ ChosenDelimiter(symptoms) = " - "
    /\ \E i \in 1..Len(symptom_list) :
          /\ Contains(symptom_list[i], ", ")
          /\ Len(symptom_list[i]) >= 5

\* C10 (as stated) -- every text that is not whitespace-only yields at least
\* one unit, and an empty or whitespace-only text yields none.
C10_Original ==
    Segmented =>
        /\ IsBlank(symptoms) => Len(symptom_list) = 0
        /\ ~IsBlank(symptoms) => Len(symptom_list) >= 1

\* C10 (amended) -- a text yields no unit exactly when nothing but whitespace
\* is left of it once the occurrences of the chosen delimiter are removed; so
\* an empty or whitespace-only text yields none, and a text that holds no
\* delimiter and is not whitespace-only yields exactly one.
C10_ZeroUnits ==
    Segmented =>
        /\ Len(symptom_list) = 0
              <=> IsBlank(WithoutDelimiter(symptoms, ChosenDelimiter(symptoms)))
        /\ IsBlank(symptoms) => Len(symptom_list) = 0
        /\ (ChosenDelimiter(symptoms) = "" /\ ~IsBlank(symptoms)) =>
              Len(symptom_list) = 1

\* a text made of delimiters only, not whitespace-only, has yielded no unit
C10_Witness ==
    /\ Segmented
    /\ ~IsBlank(symptoms)
    /\ ChosenDelimiter(symptoms) # ""
    /\ symptom_list = <<>>
    /\ pc = "classify"

\* triage_symptoms has returned a result
Triaged == Returned /\ "severity" \in DOMAIN triage_result

\* the units of the report written as a list with the delimiter
Rewritten(d) == join(symptom_list, d)

\* the texts that hold the same units as the report, one per delimiter
SameUnits == {t \in {Rewritten(d) : d \in Delimiters} : segment(t) = symptom_list}

\* C11 -- The pediatric detector is confined to the instructions: the
\* severity of a result is the most severe tier of the units and the pathway
\* the table entry of that severity, whatever the detector says of the
\* report; two reports with the same units get the same severity and pathway
\* even when the detector, which reads the whole report, accepts one and
\* rejects the other; the detector decides only which of the two instruction
\* texts of the pathway is given.
C11_DetectorConfined ==
    Triaged =>
        /\ triage_result.severity = most_severe(severity_levels)
        /\ triage_result.care_pathway = ExpectedPathway(triage_result.severity)
        /\ triage_result.instructions \in
              {adult_instructions[triage_result.care_pathway],
               pediatric_instructions[triage_result.care_pathway]}
        /\ \A t \in SameUnits :
              LET other == triage_symptoms(t)
              IN  /\ other.severity = triage_result.severity
                  /\ other.care_pathway = triage_result.care_pathway

\* a report the detector accepts (its units read "3" and "month old" across
\* the line break) has got the severity and pathway of the report with the
\* same units that the detector rejects, and other instructions
C11_Witness ==
    /\ Triaged
    /\ Len(symptom_list) >= 2
    /\ _is_pediatric_case(symptoms)
    /\ \A i \in 1..Len(symptom_list) : ~_is_pediatric_case(symptom_list[i])
    /\ \E t \in SameUnits :
          /\ ~_is_pediatric_case(t)
          /\ LET other == triage_symptoms(t)
             IN  /\ other.severity = triage_result.severity
                 /\ other.instructions # triage_result.instructions

\* C12 -- Instruction selection: the instructions of a result are the literal
\* entry for its pathway in the pediatric table when the detector accepts the
\* report and in the adult table otherwise; either table has an entry for
\* each of the five pathways, so the lookup never fails; the report
\* "my child has a mild fever" gets routine, telehealth and the pediatric
\* telehealth text.
C12_InstructionTable ==
    /\ DOMAIN pediatric_instructions = FivePathways
    /\ DOMAIN adult_instructions = FivePathways
    /\ Returned => "raised" \notin DOMAIN triage_result
    /\ Triaged =>
          triage_result.instructions =
              IF _is_pediatric_case(symptoms)
              THEN pediatric_instructions[triage_result.care_pathway]
              ELSE adult_instructions[triage_result.care_pathway]
    /\ (Triaged /\ symptoms = "my child has a mild fever") =>
          /\ triage_result.severity = "routine"
          /\ triage_result.care_pathway = "telehealth"
          /\ triage_result.instructions =
                "Consider scheduling a telehealth appointment with your child's pediatrician. "
                \o "Have a thermometer and other relevant home medical equipment ready for the consultation."

\* the report "my child has a mild fever" has been given the pediatric text
\* of its pathway, which is not the adult text
C12_Witness ==
    /\ Triaged
    /\ symptoms = "my child has a mild fever"
    /\ _is_pediatric_case(symptoms)
    /\ triage_result.instructions = pediatric_instructions[triage_result.care_pathway]
    /\ triage_result.instructions # adult_instructions[triage_result.care_pathway]

\* the units of the report in the order the permutation puts them
Permuted(f) == [i \in 1..Len(symptom_list) |-> symptom_list[f[i]]]

\* C13 -- Order irrelevance: writing the units of a report in another order,
\* joined by the delimiter the report uses, never changes the severity
\* classify_severity returns (and so never the pathway).
C13_OrderIrrelevant ==
    (Triaged /\ ChosenDelimiter(symptoms) # "") =>
        LET d == ChosenDelimiter(symptoms)
        IN  \A f \in Permutations(1..Len(symptom_list)) :
                classify_severity(join(Permuted(f), d))
                    = classify_severity(join(symptom_list, d))

\* C14 -- Statelessness: no step of an invocation changes the shared agent
\* (its pattern lists) or any other shared object; however the steps of
\* concurrent invocations interleave, an invocation returns what
\* triage_symptoms returns for its text when run alone; invocations on the
\* same text return the same result.
C14_Stateless ==
    [][/\ triage_agent' = triage_agent
       /\ triage_agent' = TriageAgent
       /\ pubmed_rag' = pubmed_rag
       /\ symptoms' = symptoms
       /\ \A i \in Invocations :
              pc'[i] = "returned" => triage_result'[i] = triage_symptoms(symptoms[i])
       /\ \A i, j \in Invocations :
              (pc'[i] = "returned" /\ pc'[j] = "returned" /\ symptoms[i] = symptoms[j])
                  => triage_result'[i] = triage_result'[j]]_vars

\* two invocations on different texts have returned different results, and
\* the first to return did so while the other was inside its loop
C14_Witness ==
    /\ DOMAIN pc = Invocations
    /\ \A i \in Invocations : pc[i] = "returned"
    /\ \E i, j \in Invocations :
          /\ symptoms[i] # symptoms[j]
          /\ triage_result[i].severity # triage_result[j].severity
          /\ j \in calls[1].meanwhile
          /\ calls[1].invocation = i

\* the loop of classify_severity has classified every unit and the list of
\* tiers is not yet sorted
AllClassified ==
    pc = "classify" /\ symptom_list # <<>> /\ Len(severity_levels) = Len(symptom_list)

\* C15 (as stated) -- for "mild rash\nchest pain" the units are "mild rash"
\* and "chest pain", their tiers SelfCare and Emergency, the severity
\* Emergency and the pathway EmergencyRoom; "mild rash" alone is SelfCare.
C15_Original ==
    /\ symptoms = "mild rash\nchest pain" =>
          /\ pc # "segment" => symptom_list = <<"mild rash", "chest pain">>
          /\ AllClassified => severity_levels = <<"self-care", "emergency">>
          /\ Triaged =>
                /\ triage_result.severity = "emergency"
                /\ triage_result.care_pathway = "emergency_room"
    /\ (symptoms = "mild rash" /\ Triaged) => triage_result.severity = "self-care"

\* C15 (amended) -- for "mild rash\nchest pain" the units are "mild rash"
\* and "chest pain", their tiers Routine and Emergency, the severity
\* Emergency and the pathway EmergencyRoom; "mild rash" alone is Routine
\* (pathway Telehealth), by the routine pattern mild (rash|pain).
C15_Example ==
    /\ symptoms = "mild rash\nchest pain" =>
          /\ pc # "segment" => symptom_list = <<"mild rash", "chest pain">>
          /\ AllClassified => severity_levels = <<"routine", "emergency">>
          /\ Triaged =>
                /\ triage_result.severity = "emergency"
                /\ triage_result.care_pathway = "emergency_room"
    /\ (symptoms = "mild rash" /\ AllClassified) => severity_levels = <<"routine">>
    /\ (symptoms = "mild rash" /\ Triaged) =>
          /\ triage_result.severity = "routine"
          /\ triage_result.care_pathway = "telehealth"

\* the report "mild rash\nchest pain" has been triaged as an emergency, its
\* first unit being the less severe one
C15_Witness ==
    /\ symptoms = "mild rash\nchest pain"
    /\ Triaged
    /\ symptom_list = <<"mild rash", "chest pain">>
    /\ classify_unit(symptom_list[1]) = "routine"
    /\ triage_result.severity = "emergency"
    /\ triage_result.care_pathway = "emergency_room"

\* C16 (as stated) -- a unit with "back pain" is SemiUrgent when it holds
\* "severe", "can't move" or "debilitating", otherwise Routine when it holds a
\* chronic term, otherwise SelfCare.
C16_Original ==
    (UnitClassified /\ Contains(LastUnit, "back pain")) =>
        LastTier =
            IF \E t \in {"severe", "can't move", "debilitating"} : Contains(LastUnit, t)
            THEN "semi-urgent"
            ELSE IF HasChronic(LastUnit) THEN "routine"
            ELSE "self-care"

\* the unit holds a keyword of a domain override that precedes the back-pain
\* rule
HasEarlierKeyword(unit) ==
    \E t \in {"asthma", "blood sugar", "diabetes"} : Contains(unit, t)

\* C16 (amended) -- a unit with "back pain" and an intensifier term (severe,
\* extreme, intense, unbearable, worst) is Emergency, by the intensifier
\* override, "back pain" holding the context term "pain"; a unit with "back
\* pain", no intensifier term and none of "asthma", "blood sugar", "diabetes"
\* is SemiUrgent when it holds "can't move" or "debilitating", otherwise
\* Routine when it holds a chronic term, otherwise SelfCare; with one of
\* those three keywords the earlier override decides, never SelfCare.
C16_BackPain ==
    (UnitClassified /\ Contains(LastUnit, "back pain")) =>
        IF HasIntensifier(LastUnit) THEN LastTier = "emergency"
        ELSE IF HasEarlierKeyword(LastUnit)
        THEN LastTier \in {"emergency", "urgent", "semi-urgent", "routine"}
        ELSE LastTier =
                IF \E t \in {"can't move", "debilitating"} : Contains(LastUnit, t)
                THEN "semi-urgent"
                ELSE IF HasChronic(LastUnit) THEN "routine"
                ELSE "self-care"

\* a unit with "back pain" and a chronic term, without intensifier and
\* matching no tier pattern, has been classified Routine by the back-pain rule
C16_Witness ==
    /\ UnitClassified
    /\ Contains(LastUnit, "back pain")
    /\ ~HasIntensifier(LastUnit)
    /\ ~HasEarlierKeyword(LastUnit)
    /\ HasChronic(LastUnit)
    /\ MatchingTiers(LastUnit) = {}
    /\ LastTier = "routine"

\* C17 -- Asthma rule and its precedence: a unit with "asthma" that does not
\* trigger the intensifier override is Emergency when it holds "attack",
\* "can't breathe", "severe" or "emergency", otherwise SemiUrgent when it
\* holds a worsening term, otherwise Routine, whatever the blood-sugar and
\* back-pain overrides and the tier patterns would say of it; so it is never
\* Urgent and never SelfCare.
C17_AsthmaRule ==
    (/\ UnitClassified
     /\ Contains(LastUnit, "asthma")
     /\ ~(HasIntensifier(LastUnit) /\ HasContext(LastUnit))) =>
        /\ LastTier =
              IF \E t \in {"attack", "can't breathe", "severe", "emergency"} :
                    Contains(LastUnit, t)
              THEN "emergency"
              ELSE IF HasWorsening(LastUnit) THEN "semi-urgent"
              ELSE "routine"
        /\ LastTier \notin {"urgent", "self-care"}

\* a unit with "asthma" that matches an Emergency tier pattern and does not
\* trigger the intensifier override has been classified Routine by the
\* asthma rule
C17_Witness ==
    /\ UnitClassified
    /\ Contains(LastUnit, "asthma")
    /\ ~(HasIntensifier(LastUnit) /\ HasContext(LastUnit))
    /\ "emergency" \in MatchingTiers(LastUnit)
    /\ LastTier = "routine"

\* C18 -- Chronic and worsening: a unit with a chronic term and a worsening
\* term is never SelfCare, whichever rule decides it.
C18_ChronicWorsening ==
    (UnitClassified /\ HasChronic(LastUnit) /\ HasWorsening(LastUnit)) =>
        /\ LastTier \in {"emergency", "urgent", "semi-urgent", "routine"}
        /\ LastTier # "self-care"

\* a unit with a chronic and a worsening term that triggers no override and
\* matches no tier pattern has been classified Routine by the fallback
C18_Witness ==
    /\ UnitClassified
    /\ HasChronic(LastUnit)
    /\ HasWorsening(LastUnit)
    /\ ~HasIntensifier(LastUnit)
    /\ ~HasDomainKeyword(LastUnit)
    /\ MatchingTiers(LastUnit) = {}
    /\ LastTier = "routine"

\* the order of the steps of a request
StepOrder == <<"triage", "retrieval", "probe", "generate">>

\* C19 -- Order of the steps: the calls of a request are made in the order
\* triage, context retrieval, availability probe, generation, each at most
\* once; the generation request is sent only after the probe returned status
\* 200 and listed the model; when the probe fails in any way, no generation
\* request is sent and the request is answered with a fallback text.
C19_StepOrder ==
    /\ Len(calls) <= Len(StepOrder)
    /\ \A i \in 1..Len(calls) : calls[i].call = StepOrder[i]
    /\ \A i \in 1..Len(calls) :
          calls[i].call = "generate" =>
              /\ calls[i - 1] = [call |-> "probe", outcome |-> "listed"]
              /\ calls[i].outcome \in GenerationOutcomes
    /\ (\E o \in ProbeOutcomes \ {"listed"} : Called("probe", o)) =>
          /\ \A i \in 1..Len(calls) : calls[i].call # "generate"
          /\ pc \in {"respond", "done"}
          /\ IsFallbackText(ai_response)
          /\ pc = "done" =>
                /\ reply.status = 200
                /\ reply.body.response = ai_response

\* a request whose probe did not list the model has been answered with a
\* fallback text, no generation request having been sent
C19_Witness ==
    /\ Answered
    /\ Len(calls) = 3
    /\ calls[3] = [call |-> "probe", outcome |-> "not_listed"]
    /\ reply.body.response =
          "An unexpected error occurred: Model medllama2 not available in Ollama. "
          \o "Please try again with a simpler description."

\* C20 -- Each request queries its own store: the documents a request gets
\* from its similarity query come from the vector store built from that
\* request's articles, under every interleaving of the requests.
C20_OwnStore ==
    \A r \in DOMAIN pc :
        pc[r] = "returned" =>
            /\ medical_context[r].searched.request = r
            /\ medical_context[r].searched.documents = medical_context[r].query
====
